---- MODULE Spec2Model ----
(***************************************************************************)
(* The upload handler of zipline (src/unnamed/part_000): one HTTP request  *)
(* is one run of handler(); several runs interleave at their awaits.       *)
(* Strings the handler formats and parses (chunk file names, file names,   *)
(* the content-range header) are sequences of tokens, so that formatting   *)
(* and parsing are computed, not assumed.                                  *)
(***************************************************************************)
EXTENDS Integers, Sequences, FiniteSets, TLC

\* ------------------------------------------------------------------ bounds
\* Requests the server receives in one behaviour.
MaxRequests == 2
\* Chunk requests received in one behaviour of SpecChunk.
MaxChunkRequests == 3
\* Batches received in one behaviour of SpecBatch.
MaxBatchRequests == 1
\* Requests received in one behaviour of SpecReject.
MaxRejectRequests == 2
\* Clock advances in one behaviour.
MaxTicks == 3
\* Files in one whole-upload batch.
MaxFiles == 2
\* Requests per behaviour of SpecIngest.
MaxIngestRequests == 1
\* Requests per behaviour of SpecServe.
MaxServeRequests == 2
\* Requests per behaviour of SpecFrame.
MaxFrameRequests == 2

\* ------------------------------------------------------------ JS primitives
\* null, NaN and a number, told apart by their field; a string is the
\* sequence of its characters, and the empty string is <<>>.
JSNull == [null |-> TRUE]
NaN == [nan |-> TRUE]
Num(n) == [num |-> n]

DigitChars == <<"0", "1", "2", "3", "4", "5", "6", "7", "8", "9">>

IsDigit(c) == \E d \in 1..10 : DigitChars[d] = c

DigitValue(c) == (CHOOSE d \in 1..10 : DigitChars[d] = c) - 1

\* String(n) for a non-negative integer, as a sequence of digit characters.
RECURSIVE ToStr(_)
ToStr(n) == IF n < 10 THEN <<DigitChars[n + 1]>>
            ELSE ToStr(n \div 10) \o <<DigitChars[(n % 10) + 1]>>

RECURSIVE DigitsValue(_)
DigitsValue(s) == IF s = <<>> THEN 0
                  ELSE 10 * DigitsValue(SubSeq(s, 1, Len(s) - 1)) + DigitValue(s[Len(s)])

\* Number(x) on the strings that occur: "" is 0, digits are their value,
\* undefined and anything else is NaN.
Number(s) == IF \A i \in 1..Len(s) : IsDigit(s[i]) THEN Num(DigitsValue(s))
             ELSE IF Len(s) > 1 /\ s[1] = "-" /\ \A i \in 2..Len(s) : IsDigit(s[i])
                  THEN Num(0 - DigitsValue(SubSeq(s, 2, Len(s))))
             ELSE NaN

\* `${x}` for a number.
Str(x) == IF x = NaN THEN <<"NaN">> ELSE ToStr(x.num)

\* x < n and x > n as JavaScript compares: null counts as 0, NaN compares false.
Less(x, n) == IF x = NaN THEN FALSE ELSE IF x = JSNull THEN 0 < n ELSE x.num < n

Greater(x, n) == IF x = NaN THEN FALSE ELSE IF x = JSNull THEN 0 > n ELSE x.num > n

\* x.replace(tok, repl): the first occurrence only.
ReplaceFirst(s, tok, repl) ==
    IF \A i \in 1..Len(s) : s[i] # tok THEN s
    ELSE LET k == CHOOSE i \in 1..Len(s) : s[i] = tok /\ \A j \in 1..(i - 1) : s[j] # tok
         IN SubSeq(s, 1, k - 1) \o repl \o SubSeq(s, k + 1, Len(s))

\* x.split(sep) for a one-character separator.
RECURSIVE Split(_, _)
Split(s, sep) ==
    IF \A i \in 1..Len(s) : s[i] # sep THEN <<s>>
    ELSE LET k == CHOOSE i \in 1..Len(s) : s[i] = sep /\ \A j \in 1..(i - 1) : s[j] # sep
         IN <<SubSeq(s, 1, k - 1)>> \o Split(SubSeq(s, k + 1, Len(s)), sep)

\* x.startsWith(prefix)
StartsWith(s, prefix) == Len(prefix) <= Len(s) /\ SubSeq(s, 1, Len(prefix)) = prefix

\* Number(arr[i]) with JavaScript's 0-based index: past the end arr[i] is
\* undefined, and Number(undefined) is NaN.
NumberAt(arr, i) == IF i + 1 <= Len(arr) THEN Number(arr[i + 1]) ELSE NaN

\* arr.pop(): the last element.
Pop(arr) == arr[Len(arr)]

\* --------------------------------------------------------- configuration
\* zconfig: the values the handler reads. The cooldown durations vary over
\* zero and non-zero; the rest is one sample configuration.
Configs ==
    { [ratelimit |-> [admin |-> a, user |-> u],
       uploader  |-> [admin_limit |-> 3, user_limit |-> 2,
                      disabled_extensions |-> {<<"exe">>}]] :
      a \in {0, 1}, u \in {0, 1} }

\* The rows of prisma.user before the first request: an administrator, an
\* ordinary user and an ordinary user with custom domains, none in cooldown.
InitialUsers ==
    (1 :> [id |-> 1, token |-> "tokA", administrator |-> TRUE,
            ratelimit |-> JSNull, domains |-> <<>>])
    @@ (2 :> [id |-> 2, token |-> "tokU", administrator |-> FALSE,
               ratelimit |-> JSNull, domains |-> <<>>])
    @@ (3 :> [id |-> 3, token |-> "tokD", administrator |-> FALSE,
               ratelimit |-> JSNull, domains |-> <<"d1", "d2">>])

\* What the clock may advance by between two steps, in milliseconds.
TickSteps == {500}

\* ------------------------------------------------------------- the inputs
Procs == {"p1", "p2"}

\* Upload identifiers a client may send: a plain one, one that extends it,
\* and one that contains the separator of the chunk file name.
Identifiers == {<<"a">>, <<"a", "b">>, <<"a", "_", "b">>}

\* The bytes of the logical upload a client sends under an identifier
\* (non-zero, so that a zero-filled gap shows).
SourceOf(id) == IF id = <<"a">> THEN <<1, 2, 3>>
                ELSE IF id = <<"a", "b">> THEN <<4, 5, 6>>
                ELSE <<7, 8, 9>>

\* `bytes start-end/total`
ContentRange(s, e, t) ==
    <<"bytes ">> \o ToStr(s) \o <<"-">> \o ToStr(e) \o <<"/">> \o ToStr(t)

\* Whole files a client may send: multer's {originalname, mimetype, buffer, size}.
PngFile == [originalname |-> <<"f", ".", "png">>, mimetype |-> <<"image/", "png">>,
            buffer |-> <<1>>, size |-> 1]
ExeFile == [originalname |-> <<"x", ".", "exe">>, mimetype |-> <<"application/", "exe">>,
            buffer |-> <<2>>, size |-> 1]
BigFile == [originalname |-> <<"b", ".", "txt">>, mimetype |-> <<"text/", "plain">>,
            buffer |-> <<3, 3, 3>>, size |-> 3]
WholeFiles == {PngFile, ExeFile, BigFile}

RECURSIVE SeqsUpTo(_, _)
SeqsUpTo(S, n) == IF n = 0 THEN {<<>>}
                  ELSE SeqsUpTo(S, n - 1)
                       \cup {Append(q, x) : q \in {t \in SeqsUpTo(S, n - 1) : Len(t) = n - 1}, x \in S}

\* A well-formed request of an authenticated client, no optional header set.
\* A header that is not sent reads as the empty string here: the handler
\* tests headers for truthiness only.
PlainRequest == [method |-> "POST", authorization |-> "tokU",
                 expires_at |-> <<>>, compression |-> <<>>, max_views |-> <<>>,
                 format |-> <<>>, zws |-> FALSE, uploadtext |-> FALSE,
                 content_range |-> <<>>, filename |-> <<>>, mimetype |-> <<>>,
                 identifier |-> <<>>, lastchunk |-> FALSE, files |-> <<>>]

\* One chunk of the upload `id`: bytes start..end of its source.
ChunkRequest(tok, id, s, e, last, name, zws) ==
    [PlainRequest EXCEPT !.authorization = tok, !.zws = zws,
        !.content_range = ContentRange(s, e, Len(SourceOf(id))),
        !.filename = name, !.mimetype = <<"image/", "png">>,
        !.identifier = id, !.lastchunk = last,
        !.files = <<[originalname |-> <<"blob">>, mimetype |-> <<"application/", "octet-stream">>,
                     buffer |-> SubSeq(SourceOf(id), s + 1, e + 1), size |-> e - s + 1]>>]

WholeRequest(tok, files, zws) ==
    [PlainRequest EXCEPT !.authorization = tok, !.files = files, !.zws = zws]

Tokens == {"tokA", "tokU"}

\* The byte ranges start-end a client may declare for an upload of n bytes.
ByteRanges(n) == {se \in (0..(n - 1)) \X (0..(n - 1)) : se[1] <= se[2]}

ChunkRequests(toks, ids, names, zwss) ==
    { ChunkRequest(x[1], x[2], x[3][1], x[3][2], x[4], x[5], x[6]) :
        x \in { y \in toks \X ids \X ByteRanges(3) \X BOOLEAN \X names \X zwss :
                   y[3] \in ByteRanges(Len(SourceOf(y[2]))) } }

WholeRequests(toks, zwss) ==
    { WholeRequest(tok, files, zws) :
        tok \in toks, files \in SeqsUpTo(WholeFiles, MaxFiles), zws \in zwss }

\* Requests the handler turns away before it looks at the upload: one
\* per reason, on a chunk request and on a whole upload.
RejectedVariants(r) ==
    { [r EXCEPT !.method = "GET"],
      [r EXCEPT !.authorization = ""],
      [r EXCEPT !.authorization = "bad"],
      [r EXCEPT !.expires_at = <<"z">>],
      [r EXCEPT !.compression = <<"a", "b", "c">>],
      [r EXCEPT !.compression = <<"-", "1">>],
      [r EXCEPT !.compression = <<"1", "0", "1">>],
      [r EXCEPT !.max_views = <<"a", "b", "c">>],
      [r EXCEPT !.max_views = <<"-", "1">>] }

PngName == <<"f", ".", "png">>
ExeName == <<"f", ".", "exe">>

\* ---------------------------------------------------------------- state
VARIABLES
    now,         \* Date.now(), in milliseconds
    ticks,       \* clock advances so far
    nreq,        \* requests received so far
    zconfig,     \* the configuration (fixed at start)
    users,       \* prisma.user: id -> row
    tmp,         \* tmpdir(): the files, each [name, data]
    images,      \* prisma.image: the File Records, in creation order
    invisibles,  \* prisma.invisibleImage: the aliases, in creation order
    datasource,  \* datasource.save calls, in order: [file, data, by]
    pc,          \* where each handler run stands
    req,         \* its request
    user,        \* its `user` (the row read at line 24)
    resp,        \* its response, once sent
    loc,         \* its local variables
    touched      \* the shared resources its request has changed so far

vars == <<now, ticks, nreq, zconfig, users, tmp, images, invisibles, datasource,
          pc, req, user, resp, loc, touched>>

shared == <<users, tmp, images, invisibles, datasource>>

NoResponse == [kind |-> "none"]

\* The handler's locals before they are assigned.
NoLocals == [start |-> JSNull, end |-> JSNull, total |-> JSNull,
             listed |-> {}, todo |-> {}, cur |-> <<>>, buffer |-> <<>>,
             chunks |-> <<>>, covered |-> {},
             i |-> 0, image |-> JSNull, invis |-> JSNull, files |-> <<>>,
             rid |-> 0]

InitWith(configs) ==
    /\ now = 0
    /\ ticks = 0
    /\ nreq = 0
    /\ zconfig \in configs
    /\ users = InitialUsers
    /\ tmp = {}
    /\ images = <<>>
    /\ invisibles = <<>>
    /\ datasource = <<>>
    /\ pc = [p \in Procs |-> "idle"]
    /\ req = [p \in Procs |-> PlainRequest]
    /\ user = [p \in Procs |-> JSNull]
    /\ resp = [p \in Procs |-> NoResponse]
    /\ loc = [p \in Procs |-> NoLocals]
    /\ touched = [p \in Procs |-> {}]

Init == InitWith(Configs)

\* The shared resources a step changes.
Changed ==
    (IF users' # users THEN {"users"} ELSE {})
    \cup (IF tmp' # tmp THEN {"tmp"} ELSE {})
    \cup (IF images' # images THEN {"images"} ELSE {})
    \cup (IF invisibles' # invisibles THEN {"invisibles"} ELSE {})
    \cup (IF datasource' # datasource THEN {"datasource"} ELSE {})

\* They are added to what the request of run p has touched.
Touch(p) == touched' = [touched EXCEPT ![p] = @ \cup Changed]

Goto(p, label) == pc' = [pc EXCEPT ![p] = label]

\* res.forbid / res.error / res.ratelimited / res.json: the run ends.
Send(p, response) ==
    /\ pc' = [pc EXCEPT ![p] = "done"]
    /\ resp' = [resp EXCEPT ![p] = response]

\* An unhandled rejection: the run ends without a handler response.
Throw(p, what) == Send(p, [kind |-> "thrown", error |-> what])

\* lib/utils/client parseExpiry: a date for an expression it understands,
\* nothing for one it does not.
ParseExpiry(x) == IF x = <<"1", "d">> THEN [date |-> "in1d"] ELSE JSNull

\* header ? Number(header) : null
HeaderNumber(h) == IF h = <<>> THEN JSNull ELSE Number(h)

\* Lines 35-58: the message of the first header the handler rejects, or "".
HeaderError(r) ==
    LET imageCompressionPercent == HeaderNumber(r.compression)
        fileMaxViews == HeaderNumber(r.max_views)
    IN IF r.expires_at # <<>> /\ ParseExpiry(r.expires_at) = JSNull
         THEN "invalid date"
       ELSE IF imageCompressionPercent = NaN
         THEN "invalid image compression percent (invalid number)"
       ELSE IF Less(imageCompressionPercent, 0) \/ Greater(imageCompressionPercent, 100)
         THEN "invalid image compression percent (% < 0 || % > 100)"
       ELSE IF fileMaxViews = NaN
         THEN "invalid max views (invalid number)"
       ELSE IF Less(fileMaxViews, 0)
         THEN "invalid max views (max views < 0)"
       ELSE ""

\* Lines 21-30: the reason the request is forbidden, or "".
ForbidReason(r) ==
    IF r.method # "POST" THEN "invalid method"
    ELSE IF r.authorization = "" THEN "no authorization"
    ELSE IF \A u \in DOMAIN users : users[u].token # r.authorization
      THEN "authorization incorrect"
    ELSE ""

\* Lines 24-28: prisma.user.findFirst({where: {token}}).
FindUser(token) == users[CHOOSE u \in DOMAIN users : users[u].token = token]

\* ------------------------------------------------------ the chunk store
\* `zipline_partial_${identifier}_${start}_${end}`
TempFileName(identifier, start, end) ==
    <<"zipline", "_", "partial", "_">> \o identifier \o <<"_">> \o Str(start)
        \o <<"_">> \o Str(end)

\* `zipline_partial_${identifier}`
PartialPrefix(identifier) == <<"zipline", "_", "partial", "_">> \o identifier

\* Lines 63-67: [start, end, total] of `bytes start-end/total`.
ParseContentRange(h) ==
    LET parts == Split(ReplaceFirst(ReplaceFirst(h, "bytes ", <<>>), "-", <<"/">>), "/")
    IN [k \in 1..Len(parts) |-> Number(parts[k])]

\* Lines 78-80: the names readdir returns that belong to the upload.
Partials(dir, identifier) == {x \in dir : StartsWith(x, PartialPrefix(identifier))}

\* Lines 83-84: {start, end} read back from a chunk file name.
ReadChunk(x) ==
    LET parts == Split(x, "_")
    IN [start |-> NumberAt(parts, 3), end |-> NumberAt(parts, 4), filename |-> x]

FileNames(dir) == {f.name : f \in dir}

FileData(dir, name) == (CHOOSE f \in dir : f.name = name).data

\* writeFile: creates the file or replaces its content.
WriteFile(dir, name, data) == {f \in dir : f.name # name} \cup {[name |-> name, data |-> data]}

Unlink(dir, name) == {f \in dir : f.name # name}

\* new Uint8Array(total)
Zeros(total) == [k \in 1..total.num |-> 0]

\* The offset TypedArray.set uses: ToIntegerOrInfinity, which takes NaN to 0.
SetOffset(start) == IF start = NaN THEN 0 ELSE start.num

\* chunks.set(buffer, start): the buffer copied in at the offset.
SetAt(chunks, buffer, start) ==
    [k \in 1..Len(chunks) |->
        IF k > SetOffset(start) /\ k <= SetOffset(start) + Len(buffer)
        THEN buffer[k - SetOffset(start)] ELSE chunks[k]]

\* chunks.set throws a RangeError when the source does not fit.
SetFits(chunks, buffer, start) == SetOffset(start) + Len(buffer) <= Len(chunks)

\* (mutant) the chunk of a partial upload is written before the headers
\* are validated.
AcceptWriteFirst(p, r) ==
    /\ pc[p] \in {"idle", "done"}
    /\ nreq' = nreq + 1
    /\ req' = [req EXCEPT ![p] = r]
    /\ loc' = [loc EXCEPT ![p] = [NoLocals EXCEPT !.rid = nreq + 1]]
    /\ IF ForbidReason(r) # ""
       THEN /\ Send(p, [kind |-> "forbid", error |-> ForbidReason(r)])
            /\ user' = [user EXCEPT ![p] = JSNull]
            /\ UNCHANGED tmp
       ELSE /\ user' = [user EXCEPT ![p] = FindUser(r.authorization)]
            /\ tmp' = IF r.content_range # <<>>
                       THEN LET range == ParseContentRange(r.content_range)
                            IN WriteFile(tmp, TempFileName(r.identifier, range[1], range[2]),
                                         r.files[1].buffer)
                       ELSE tmp
            /\ IF HeaderError(r) # ""
               THEN Send(p, [kind |-> "error", error |-> HeaderError(r)])
               ELSE /\ Goto(p, IF r.content_range # <<>> THEN "writeFile" ELSE "ratelimit")
                    /\ resp' = [resp EXCEPT ![p] = NoResponse]
    /\ UNCHANGED <<now, ticks, zconfig, users, images, invisibles, datasource>>
    /\ touched' = [touched EXCEPT ![p] = Changed]

\* Lines 20-61: request r arrives at an idle run (or one whose response
\* was sent). Method and authorization are checked, the user row is read,
\* the headers are validated, and the request is routed to the
\* partial-upload path or to the whole-upload path.
Accept(p, r) ==
    /\ pc[p] \in {"idle", "done"}
    /\ nreq' = nreq + 1
    /\ req' = [req EXCEPT ![p] = r]
    /\ loc' = [loc EXCEPT ![p] = [NoLocals EXCEPT !.rid = nreq + 1]]
    /\ IF ForbidReason(r) # ""
       THEN /\ Send(p, [kind |-> "forbid", error |-> ForbidReason(r)])
            /\ user' = [user EXCEPT ![p] = JSNull]
       ELSE /\ user' = [user EXCEPT ![p] = FindUser(r.authorization)]
            /\ IF HeaderError(r) # ""
               THEN Send(p, [kind |-> "error", error |-> HeaderError(r)])
               ELSE /\ Goto(p, IF r.content_range # <<>> THEN "writeFile" ELSE "ratelimit")
                    /\ resp' = [resp EXCEPT ![p] = NoResponse]
    /\ UNCHANGED <<now, ticks, zconfig, shared>>
    /\ touched' = [touched EXCEPT ![p] = Changed]

\* (mutant) storing a chunk drops the chunks the identifier already has.
WriteChunkFresh(p) ==
    /\ pc[p] = "writeFile"
    /\ LET r == req[p]
           range == ParseContentRange(r.content_range)
           tempFile == TempFileName(r.identifier, range[1], range[2])
       IN /\ tmp' = WriteFile({f \in tmp : ~StartsWith(f.name, PartialPrefix(r.identifier))},
                              tempFile, r.files[1].buffer)
          /\ loc' = [loc EXCEPT ![p].start = range[1], ![p].end = range[2],
                                 ![p].total = range[3]]
          /\ IF r.lastchunk
               THEN Goto(p, "readdir") /\ UNCHANGED resp
               ELSE Send(p, [kind |-> "json", body |-> [success |-> TRUE]])
    /\ UNCHANGED <<now, ticks, nreq, zconfig, users, images, invisibles, datasource, req, user>>
    /\ Touch(p)

\* Lines 63-77: the chunk is written under its name; a request not flagged
\* last-chunk is acknowledged (lines 156-158).
WriteChunk(p) ==
    /\ pc[p] = "writeFile"
    /\ LET r == req[p]
           range == ParseContentRange(r.content_range)
           tempFile == TempFileName(r.identifier, range[1], range[2])
       IN /\ tmp' = WriteFile(tmp, tempFile, r.files[1].buffer)
          /\ loc' = [loc EXCEPT ![p].start = range[1], ![p].end = range[2],
                                 ![p].total = range[3]]
          /\ IF r.lastchunk
               THEN Goto(p, "readdir") /\ UNCHANGED resp
               ELSE Send(p, [kind |-> "json", body |-> [success |-> TRUE]])
    /\ UNCHANGED <<now, ticks, nreq, zconfig, users, images, invisibles, datasource, req, user>>
    /\ Touch(p)

\* Lines 78-88: the chunk files of the upload are listed, the buffer is allocated.
ReadDir(p) ==
    /\ pc[p] = "readdir"
    /\ LET partials == Partials(FileNames(tmp), req[p].identifier)
       IN loc' = [loc EXCEPT ![p].listed = partials, ![p].todo = partials,
                             ![p].chunks = Zeros(loc[p].total)]
    /\ Goto(p, IF Partials(FileNames(tmp), req[p].identifier) = {} THEN "create" ELSE "readFile")
    /\ UNCHANGED <<now, ticks, nreq, zconfig, shared, req, user, resp>>
    /\ Touch(p)

\* Line 93: the next listed chunk is read (readdir's order is the file
\* system's: any of the remaining names may be next). A file that is gone
\* makes readFile reject.
ReadFile(p) ==
    /\ pc[p] = "readFile"
    /\ \E x \in loc[p].todo :
          IF x \in FileNames(tmp)
          THEN /\ loc' = [loc EXCEPT ![p].cur = x, ![p].buffer = FileData(tmp, x)]
               /\ Goto(p, "unlink")
               /\ UNCHANGED resp
          ELSE /\ Throw(p, "ENOENT")
               /\ UNCHANGED loc
    /\ UNCHANGED <<now, ticks, nreq, zconfig, shared, req, user>>
    /\ Touch(p)

\* Lines 94-97: the chunk file is deleted, then its bytes are copied into
\* the buffer at the start read back from its name.
UnlinkAndSet(p) ==
    /\ pc[p] = "unlink"
    /\ LET x == loc[p].cur
           chunkData == ReadChunk(x)
       IN IF x \notin FileNames(tmp)
          THEN Throw(p, "ENOENT") /\ UNCHANGED <<tmp, loc>>
          ELSE /\ tmp' = Unlink(tmp, x)
               /\ IF ~SetFits(loc[p].chunks, loc[p].buffer, chunkData.start)
                  THEN Throw(p, "RangeError") /\ UNCHANGED loc
                  ELSE /\ loc' = [loc EXCEPT
                              ![p].chunks = SetAt(@, loc[p].buffer, chunkData.start),
                              ![p].covered = @ \cup
                                  {SetOffset(chunkData.start) + k : k \in 0..(Len(loc[p].buffer) - 1)},
                              ![p].todo = @ \ {x},
                              ![p].cur = <<>>, ![p].buffer = <<>>]
                       /\ Goto(p, IF loc[p].todo = {x} THEN "create" ELSE "readFile")
                       /\ UNCHANGED resp
    /\ UNCHANGED <<now, ticks, nreq, zconfig, users, images, invisibles, datasource, req, user>>
    /\ Touch(p)

\* ------------------------------------------------------------- ingestion
LowerChars == <<"a", "d", "e", "m", "n", "o", "r", "t", "u", "i">>
UpperChars == <<"A", "D", "E", "M", "N", "O", "R", "T", "U", "I">>

UpperChar(c) == IF \E k \in 1..Len(LowerChars) : LowerChars[k] = c
                THEN UpperChars[CHOOSE k \in 1..Len(LowerChars) : LowerChars[k] = c]
                ELSE c

ToUpperCase(s) == [k \in 1..Len(s) |-> UpperChar(s[k])]

\* Object.keys(ImageFormat)
ImageFormatKeys == {<<"R", "A", "N", "D", "O", "M">>, <<"D", "A", "T", "E">>,
                    <<"U", "U", "I", "D">>, <<"N", "A", "M", "E">>}

\* The value false where the handler expects a key of ImageFormat (a text).
JSFalse == <<"false">>

\* Lines 46-47: the format the handler works with; false for a selector
\* that is not a key of ImageFormat.
Format(r) ==
    LET rawFormat == IF ToUpperCase(r.format) = <<>> THEN <<"R", "A", "N", "D", "O", "M">>
                     ELSE ToUpperCase(r.format)
    IN IF rawFormat \in ImageFormatKeys THEN rawFormat ELSE JSFalse

\* What randomChars, randomUUID and createInvisImage may return. randomChars
\* names every File Record of the specifications below; nothing here
\* depends on two of its names differing, and one value keeps them small.
RandomStems == {<<"r", "1">>}
UuidStems == {<<"u", "1">>, <<"u", "2">>}
InvisStrings == {<<"z", "1">>, <<"z", "2">>}

\* dayjs().format(format_date): a text of the current time.
DateStem(t) == <<"d">> \o ToStr(t)

\* Lines 104-120 and 190-206: the file name stems the switch may produce.
FileNameStems(format, originalname, t) ==
    IF format = <<"D", "A", "T", "E">> THEN {DateStem(t)}
    ELSE IF format = <<"U", "U", "I", "D">> THEN UuidStems
    ELSE IF format = <<"N", "A", "M", "E">> THEN {Split(originalname, ".")[1]}
    ELSE RandomStems

\* filename.split('.').pop()
Extension(filename) == Pop(Split(filename, "."))

\* Whether a number is truthy: not null, not NaN, not 0.
Truthy(x) == x # JSNull /\ x # NaN /\ x.num # 0

\* Lines 127 and 213: imageCompressionPercent && mimetype.startsWith('image/')
CompressionUsed(r, mimetype) ==
    Truthy(HeaderNumber(r.compression)) /\ StartsWith(mimetype, <<"image/">>)

\* Lines 130-141 and 215-226: the row prisma.image.create inserts
\* (rid: the request that created it; upload: its upload identifier).
ImageRow(id, stem, ext, mimetype, p) ==
    [id |-> id, file |-> stem \o <<".">> \o ext, mimetype |-> mimetype,
     userId |-> user[p].id, format |-> Format(req[p]),
     expires_at |-> IF req[p].expires_at # <<>> THEN ParseExpiry(req[p].expires_at) ELSE JSNull,
     maxViews |-> HeaderNumber(req[p].max_views),
     rid |-> loc[p].rid, upload |-> req[p].identifier]

\* prisma.image.create is given `format` as computed at line 47. For a
\* selector that is no key of ImageFormat that value is false, which is no
\* value of the column's enum: the client may reject the call, and the
\* handler has no catch. Both outcomes are kept.
CreateAccepts(format) == format # JSFalse

\* sharp(buffer).jpeg({quality}).toBuffer(): other bytes than the input's.
Sharp(buffer, quality) == [k \in 1..Len(buffer) |-> 100 + buffer[k]]

\* The URL pushed to the response: line 149-151 and 243-256.
ServerUrl(name) == [origin |-> "scheme://host", route |-> "route", name |-> name]

DomainUrl(domain, name) == [origin |-> domain, route |-> "route", name |-> name]

\* Lines 99-141: after the loop, the extension is checked, the file is
\* named and its File Record is created.
ChunkCreate(p) ==
    /\ pc[p] = "create"
    /\ LET r == req[p]
           ext == Extension(r.filename)
           compressionUsed == CompressionUsed(r, r.mimetype)
       IN IF ext \in zconfig.uploader.disabled_extensions
          THEN /\ Send(p, [kind |-> "error", error |-> "disabled extension recieved"])
               /\ UNCHANGED <<images, loc>>
          ELSE \/ /\ ~CreateAccepts(Format(r))
                  /\ Throw(p, "image.create")
                  /\ UNCHANGED <<images, loc>>
               \/ \E fileName \in FileNameStems(Format(r), r.filename, now) :
                  LET file == ImageRow(Len(images) + 1, fileName,
                                       IF compressionUsed THEN <<"jpg">> ELSE ext, r.mimetype, p)
                  IN /\ images' = Append(images, file)
                     /\ loc' = [loc EXCEPT ![p].image = file]
                     /\ Goto(p, IF r.zws THEN "invis" ELSE "save")
                     /\ UNCHANGED resp
    /\ UNCHANGED <<now, ticks, nreq, zconfig, users, tmp, invisibles, datasource, req, user>>
    /\ Touch(p)

\* Line 143: createInvisImage(length, file.id).
ChunkInvis(p) ==
    /\ pc[p] = "invis"
    /\ \E z \in InvisStrings :
         LET invis == [invis |-> z, imageId |-> loc[p].image.id]
         IN /\ invisibles' = Append(invisibles, invis)
            /\ loc' = [loc EXCEPT ![p].invis = invis]
    /\ Goto(p, "save")
    /\ UNCHANGED <<now, ticks, nreq, zconfig, users, tmp, images, datasource, req, user, resp>>
    /\ Touch(p)

\* Lines 145-153: the reassembled bytes are saved and the URL is returned.
ChunkSave(p) ==
    /\ pc[p] = "save"
    /\ datasource' = Append(datasource, [file |-> loc[p].image.file, data |-> loc[p].chunks,
                                          rid |-> loc[p].rid])
    /\ Send(p, [kind |-> "json", body |-> [files |->
            <<ServerUrl(IF loc[p].invis # JSNull THEN loc[p].invis.invis ELSE loc[p].image.file)>>]])
    /\ UNCHANGED <<now, ticks, nreq, zconfig, users, tmp, images, invisibles, req, user, loc>>
    /\ Touch(p)

\* Line 145: datasource.save rejects; nothing is written, the handler
\* has no catch and the File Record stays.
ChunkSaveFails(p) ==
    /\ pc[p] = "save"
    /\ Throw(p, "datasource.save")
    /\ UNCHANGED <<now, ticks, nreq, zconfig, shared, req, user, loc>>
    /\ Touch(p)

\* ------------------------------------------------------- the rate limiter
\* (mutant) the difference taken the wrong way round.
RemainingReversed(ratelimit, t) == t - ratelimit.num

\* Line 162: the time left of a cooldown.
Remaining(ratelimit, t) == ratelimit.num - t

\* (mutant) a cooldown that ends now counts as still running.
CooldownOverStrict(remaining) == remaining < 0

\* Line 163: whether the cooldown is over.
CooldownOver(remaining) == remaining <= 0

\* (mutant) the cooldown is cleared when the request is turned away, too.
RatelimitCheckClears(p) ==
    /\ pc[p] = "ratelimit"
    /\ users' = IF user[p].ratelimit # JSNull
                 THEN [users EXCEPT ![user[p].id].ratelimit = JSNull]
                 ELSE users
    /\ IF user[p].ratelimit # JSNull /\ ~CooldownOver(Remaining(user[p].ratelimit, now))
       THEN Send(p, [kind |-> "ratelimited", remaining |-> Remaining(user[p].ratelimit, now)])
       ELSE IF Len(req[p].files) = 0
            THEN Send(p, [kind |-> "error", error |-> "no files"])
            ELSE Goto(p, "file") /\ UNCHANGED resp
    /\ UNCHANGED <<now, ticks, nreq, zconfig, tmp, images, invisibles, datasource, req, user, loc>>
    /\ Touch(p)

\* Lines 161-178: the cooldown read at line 24 is checked, and cleared when
\* it is over; then a request without files is turned away.
RatelimitCheck(p) ==
    /\ pc[p] = "ratelimit"
    /\ IF user[p].ratelimit # JSNull /\ ~CooldownOver(Remaining(user[p].ratelimit, now))
       THEN /\ Send(p, [kind |-> "ratelimited", remaining |-> Remaining(user[p].ratelimit, now)])
            /\ UNCHANGED users
       ELSE /\ users' = IF user[p].ratelimit # JSNull
                         THEN [users EXCEPT ![user[p].id].ratelimit = JSNull]
                         ELSE users
            /\ IF Len(req[p].files) = 0
               THEN Send(p, [kind |-> "error", error |-> "no files"])
               ELSE Goto(p, "file") /\ UNCHANGED resp
    /\ UNCHANGED <<now, ticks, nreq, zconfig, tmp, images, invisibles, datasource, req, user, loc>>
    /\ Touch(p)

\* Line 182: the size limit of the user's role.
SizeLimit(u) == IF u.administrator THEN zconfig.uploader.admin_limit
                ELSE zconfig.uploader.user_limit

\* Lines 181-226: file i of the batch is checked for size and extension,
\* named, and its File Record is created.
FileCreate(p) ==
    /\ pc[p] = "file"
    /\ LET r == req[p]
           file == r.files[loc[p].i + 1]
           ext == Extension(file.originalname)
           compressionUsed == CompressionUsed(r, file.mimetype)
       IN IF file.size > SizeLimit(user[p])
          THEN /\ Send(p, [kind |-> "error", error |-> "size too big", i |-> loc[p].i])
               /\ UNCHANGED <<images, loc>>
          ELSE IF ext \in zconfig.uploader.disabled_extensions
          THEN /\ Send(p, [kind |-> "error", error |-> "disabled extension recieved", i |-> loc[p].i])
               /\ UNCHANGED <<images, loc>>
          ELSE \/ /\ ~CreateAccepts(Format(r))
                  /\ Throw(p, "image.create")
                  /\ UNCHANGED <<images, loc>>
               \/ \E fileName \in FileNameStems(Format(r), file.originalname, now) :
                  LET image == ImageRow(Len(images) + 1, fileName,
                                        IF compressionUsed THEN <<"jpg">> ELSE ext,
                                        IF r.uploadtext THEN <<"text/", "plain">>
                                        ELSE IF compressionUsed THEN <<"image/", "jpeg">>
                                        ELSE file.mimetype, p)
                  IN /\ images' = Append(images, image)
                     /\ loc' = [loc EXCEPT ![p].image = image, ![p].invis = JSNull]
                     /\ Goto(p, IF r.zws THEN "fileInvis" ELSE "fileSave")
                     /\ UNCHANGED resp
    /\ UNCHANGED <<now, ticks, nreq, zconfig, users, tmp, invisibles, datasource, req, user>>
    /\ Touch(p)

\* Line 228: createInvisImage(length, image.id).
FileInvis(p) ==
    /\ pc[p] = "fileInvis"
    /\ \E z \in InvisStrings :
         LET invis == [invis |-> z, imageId |-> loc[p].image.id]
         IN /\ invisibles' = Append(invisibles, invis)
            /\ loc' = [loc EXCEPT ![p].invis = invis]
    /\ Goto(p, "fileSave")
    /\ UNCHANGED <<now, ticks, nreq, zconfig, users, tmp, images, datasource, req, user, resp>>
    /\ Touch(p)

\* (mutant) the loop ends after the first file it has saved.
FileSaveOnce(p) ==
    /\ pc[p] = "fileSave"
    /\ LET r == req[p]
           file == r.files[loc[p].i + 1]
           name == IF loc[p].invis # JSNull THEN loc[p].invis.invis ELSE loc[p].image.file
           data == IF CompressionUsed(r, file.mimetype)
                   THEN Sharp(file.buffer, HeaderNumber(r.compression)) ELSE file.buffer
       IN /\ datasource' = Append(datasource, [file |-> loc[p].image.file, data |-> data,
                                                rid |-> loc[p].rid])
          /\ \E url \in IF Len(user[p].domains) # 0
                         THEN {DomainUrl(user[p].domains[d], name) : d \in 1..Len(user[p].domains)}
                         ELSE {ServerUrl(name)} :
                loc' = [loc EXCEPT ![p].files = Append(@, url), ![p].i = @ + 1]
          /\ Goto(p, "arm")
    /\ UNCHANGED <<now, ticks, nreq, zconfig, users, tmp, images, invisibles, req, user, resp>>
    /\ Touch(p)

\* Lines 230-265: the bytes (recompressed when compression is used) are
\* saved, the URL is pushed to the response, and the loop goes on.
FileSave(p) ==
    /\ pc[p] = "fileSave"
    /\ LET r == req[p]
           file == r.files[loc[p].i + 1]
           name == IF loc[p].invis # JSNull THEN loc[p].invis.invis ELSE loc[p].image.file
           data == IF CompressionUsed(r, file.mimetype)
                   THEN Sharp(file.buffer, HeaderNumber(r.compression)) ELSE file.buffer
       IN /\ datasource' = Append(datasource, [file |-> loc[p].image.file, data |-> data,
                                                rid |-> loc[p].rid])
          /\ \E url \in IF Len(user[p].domains) # 0
                         THEN {DomainUrl(user[p].domains[d], name) : d \in 1..Len(user[p].domains)}
                         ELSE {ServerUrl(name)} :
                loc' = [loc EXCEPT ![p].files = Append(@, url), ![p].i = @ + 1]
          /\ Goto(p, IF loc[p].i + 1 = Len(r.files) THEN "arm" ELSE "file")
    /\ UNCHANGED <<now, ticks, nreq, zconfig, users, tmp, images, invisibles, req, user, resp>>
    /\ Touch(p)

\* (mutant) a failed save takes the File Record back.
FileSaveFailsRollback(p) ==
    /\ pc[p] = "fileSave"
    /\ Throw(p, "datasource.save")
    /\ images' = SelectSeq(images, LAMBDA im : im.id # loc[p].image.id)
    /\ UNCHANGED <<now, ticks, nreq, zconfig, users, tmp, invisibles, datasource, req, user, loc>>
    /\ Touch(p)

\* Lines 232 and 237: datasource.save rejects; nothing is written, the
\* loop and the handler end there.
FileSaveFails(p) ==
    /\ pc[p] = "fileSave"
    /\ Throw(p, "datasource.save")
    /\ UNCHANGED <<now, ticks, nreq, zconfig, shared, req, user, loc>>
    /\ Touch(p)

\* Lines 267-287: the cooldown the handler sets after the batch, or the
\* one the user has when it sets none.
ArmedRatelimit(u, current, t) ==
    IF u.administrator /\ zconfig.ratelimit.admin > 0
    THEN Num(t + zconfig.ratelimit.admin * 1000)
    ELSE IF ~u.administrator /\ zconfig.ratelimit.user > 0
    THEN IF u.administrator /\ zconfig.ratelimit.user > 0
         THEN Num(t + zconfig.ratelimit.user * 1000)
         ELSE current
    ELSE current

\* Lines 267-289: after the loop the cooldown is armed and the URLs are returned.
Arm(p) ==
    /\ pc[p] = "arm"
    /\ users' = [users EXCEPT ![user[p].id].ratelimit = ArmedRatelimit(user[p], @, now)]
    /\ Send(p, [kind |-> "json", body |-> [files |-> loc[p].files]])
    /\ UNCHANGED <<now, ticks, nreq, zconfig, tmp, images, invisibles, datasource, req, user, loc>>
    /\ Touch(p)

Tick ==
    /\ ticks < MaxTicks
    /\ \E d \in TickSteps : now' = now + d
    /\ ticks' = ticks + 1
    /\ UNCHANGED <<nreq, zconfig, shared, pc, req, user, resp, loc, touched>>

\* ------------------------------------------------------- specifications
\* Spec: the rate limiter. Single-file whole uploads and single-chunk
\* partial uploads of the administrator and of the ordinary user, in two
\* interleaved runs, under every cooldown configuration, while time passes.
LimitRequests ==
    {WholeRequest(tok, <<PngFile>>, FALSE) : tok \in Tokens}
    \cup {ChunkRequest(tok, <<"a">>, 0, 2, TRUE, PngName, FALSE) : tok \in Tokens}

Next ==
    \/ \E p \in Procs : \E r \in LimitRequests : nreq < MaxRequests /\ Accept(p, r)
    \/ \E p \in Procs :
         \/ WriteChunk(p) \/ ReadDir(p) \/ ReadFile(p) \/ UnlinkAndSet(p)
         \/ ChunkCreate(p) \/ ChunkSave(p)
         \/ RatelimitCheck(p) \/ FileCreate(p) \/ FileSave(p) \/ Arm(p)
    \/ Tick

Spec == Init /\ [][Next]_vars

\* SpecChunk: the partial-upload path. Chunk requests of one user, for
\* every identifier, byte range and last-chunk flag, one after the other.
NoCooldown == {c \in Configs : c.ratelimit.admin = 0 /\ c.ratelimit.user = 0}

ChunkStoreRequests == ChunkRequests({"tokU"}, Identifiers, {PngName, ExeName}, {FALSE})

InitNoCooldown == InitWith(NoCooldown)

NextChunk ==
    \/ \E r \in ChunkStoreRequests : nreq < MaxChunkRequests /\ Accept("p1", r)
    \/ WriteChunk("p1") \/ ReadDir("p1") \/ ReadFile("p1") \/ UnlinkAndSet("p1")
    \/ ChunkCreate("p1") \/ ChunkSave("p1")

SpecChunk == InitNoCooldown /\ [][NextChunk]_vars

\* SpecBatch: the whole-upload path. One batch of up to MaxFiles files, of
\* the administrator or of the ordinary user, with or without an alias.
BatchRequests == WholeRequests(Tokens, BOOLEAN)

NextBatch ==
    \/ \E r \in BatchRequests : nreq < MaxBatchRequests /\ Accept("p1", r)
    \/ RatelimitCheck("p1") \/ FileCreate("p1") \/ FileInvis("p1") \/ FileSave("p1")
    \/ Arm("p1")

SpecBatch == Init /\ [][NextBatch]_vars

\* SpecReject: requests the handler turns away, among requests it serves,
\* in two interleaved runs.
ServedRequests ==
    { WholeRequest("tokU", <<PngFile>>, TRUE),
      ChunkRequest("tokU", <<"a">>, 0, 2, TRUE, PngName, TRUE) }

RejectRequests ==
    ServedRequests
    \cup UNION {RejectedVariants(r) : r \in ServedRequests}
    \cup {WholeRequest("tokU", <<>>, TRUE)}

NextReject ==
    \/ \E p \in Procs : \E r \in RejectRequests : nreq < MaxRejectRequests /\ Accept(p, r)
    \/ \E p \in Procs :
         \/ WriteChunk(p) \/ ReadDir(p) \/ ReadFile(p) \/ UnlinkAndSet(p)
         \/ ChunkCreate(p) \/ ChunkInvis(p) \/ ChunkSave(p)
         \/ RatelimitCheck(p) \/ FileCreate(p) \/ FileInvis(p) \/ FileSave(p) \/ Arm(p)

SpecReject == InitNoCooldown /\ [][NextReject]_vars

\* SpecIngest: the ingestion options. One upload, whole or as a single
\* final chunk, for every combination of file name, mimetype, compression
\* percent, format selector, alias flag, uploadtext flag and kind of user.
IngestNames == {PngName, <<"a", ".", "b", ".", "c">>, <<"n">>}

IngestMimetypes == {<<"image/", "png">>, <<"text/", "plain">>}

IngestCompressions == {<<>>, <<"8", "0">>, <<"0">>}

IngestFormats ==
    {<<>>, <<"n", "a", "m", "e">>, <<"U", "U", "I", "D">>, <<"D", "a", "t", "e">>,
     <<"r", "a", "n", "d", "o", "m">>, <<"x">>}

IngestTokens == {"tokU", "tokD"}

IngestRequests ==
    { [x[1] EXCEPT !.authorization = x[2], !.compression = x[3], !.format = x[4],
                   !.zws = x[5], !.uploadtext = x[6]] :
        x \in ( { WholeRequest("tokU", <<[originalname |-> n, mimetype |-> m,
                                           buffer |-> <<1, 2>>, size |-> 2]>>, FALSE) :
                      n \in IngestNames, m \in IngestMimetypes }
                \cup { [ChunkRequest("tokU", <<"a">>, 0, 2, TRUE, n, FALSE) EXCEPT !.mimetype = m] :
                      n \in IngestNames, m \in IngestMimetypes } )
              \X IngestTokens \X IngestCompressions \X IngestFormats \X BOOLEAN \X BOOLEAN }

NextIngest ==
    \/ \E r \in IngestRequests : nreq < MaxIngestRequests /\ Accept("p1", r)
    \/ WriteChunk("p1") \/ ReadDir("p1") \/ ReadFile("p1") \/ UnlinkAndSet("p1")
    \/ ChunkCreate("p1") \/ ChunkInvis("p1") \/ ChunkSave("p1")
    \/ RatelimitCheck("p1") \/ FileCreate("p1") \/ FileInvis("p1") \/ FileSave("p1")
    \/ Arm("p1")

SpecIngest == InitNoCooldown /\ [][NextIngest]_vars

\* SpecAccepted: batches the handler serves. Batches of up to MaxFiles
\* files of the ordinary user, with or without an alias, some holding a
\* file of a disabled extension, one batch after the other.
TxtFile == [originalname |-> <<"t", ".", "txt">>, mimetype |-> <<"text/", "plain">>,
            buffer |-> <<4>>, size |-> 1]

AcceptedRequests ==
    { WholeRequest("tokU", files, zws) :
        files \in SeqsUpTo({PngFile, TxtFile, ExeFile}, MaxFiles) \ {<<>>}, zws \in BOOLEAN }

NextAccepted ==
    \/ \E r \in AcceptedRequests : nreq < MaxBatchRequests /\ Accept("p1", r)
    \/ RatelimitCheck("p1") \/ FileCreate("p1") \/ FileInvis("p1") \/ FileSave("p1")
    \/ Arm("p1")

SpecAccepted == InitNoCooldown /\ [][NextAccepted]_vars

\* SpecServe: uploads that are served or fail while being stored. Chunk
\* requests of one identifier, flagged last-chunk or not, and single-file
\* whole uploads, with and without an alias, in two interleaved runs;
\* datasource.save may reject.
ServeRequests ==
    { ChunkRequest("tokU", <<"a">>, 0, 1, FALSE, PngName, FALSE),
      ChunkRequest("tokU", <<"a">>, 2, 2, FALSE, PngName, FALSE),
      ChunkRequest("tokU", <<"a">>, 2, 2, TRUE, PngName, FALSE),
      ChunkRequest("tokU", <<"a">>, 2, 2, TRUE, PngName, TRUE),
      WholeRequest("tokU", <<PngFile>>, FALSE),
      WholeRequest("tokU", <<PngFile>>, TRUE) }

NextServe ==
    \/ \E p \in Procs : \E r \in ServeRequests : nreq < MaxServeRequests /\ Accept(p, r)
    \/ \E p \in Procs :
         \/ WriteChunk(p) \/ ReadDir(p) \/ ReadFile(p) \/ UnlinkAndSet(p)
         \/ ChunkCreate(p) \/ ChunkInvis(p) \/ ChunkSave(p) \/ ChunkSaveFails(p)
         \/ RatelimitCheck(p) \/ FileCreate(p) \/ FileInvis(p) \/ FileSave(p)
         \/ FileSaveFails(p) \/ Arm(p)

SpecServe == InitNoCooldown /\ [][NextServe]_vars

\* SpecFrame: what writes the cooldown. Whole uploads of the administrator
\* - served, rejected at the second file for its extension or its size,
\* or without files - and a chunked upload, in two interleaved runs, under
\* every cooldown configuration, while time passes.
HugeFile == [originalname |-> <<"h", ".", "txt">>, mimetype |-> <<"text/", "plain">>,
             buffer |-> <<5, 5, 5, 5>>, size |-> 4]

FrameRequests ==
    { WholeRequest("tokA", <<PngFile>>, FALSE),
      WholeRequest("tokA", <<PngFile, ExeFile>>, FALSE),
      WholeRequest("tokA", <<PngFile, HugeFile>>, FALSE),
      WholeRequest("tokA", <<>>, FALSE),
      ChunkRequest("tokA", <<"a">>, 0, 2, TRUE, PngName, FALSE) }

NextFrame ==
    \/ \E p \in Procs : \E r \in FrameRequests : nreq < MaxFrameRequests /\ Accept(p, r)
    \/ \E p \in Procs :
         \/ WriteChunk(p) \/ ReadDir(p) \/ ReadFile(p) \/ UnlinkAndSet(p)
         \/ ChunkCreate(p) \/ ChunkSave(p)
         \/ RatelimitCheck(p) \/ FileCreate(p) \/ FileSave(p) \/ Arm(p)
    \/ Tick

SpecFrame == Init /\ [][NextFrame]_vars

\* ------------------------------------------------------------ properties
\* The chunk file names writeFile gives the chunks of upload `id`.
OwnNames(id) ==
    {TempFileName(id, Num(se[1]), Num(se[2])) : se \in ByteRanges(Len(SourceOf(id)))}

\* The byte ranges of upload `id` among the chunk files a run listed.
ListedRanges(p) ==
    {se \in ByteRanges(Len(SourceOf(req[p].identifier))) :
        TempFileName(req[p].identifier, Num(se[1]), Num(se[2])) \in loc[p].listed}

Offsets(ranges) == UNION {se[1]..se[2] : se \in ranges}

\* Non-overlapping ranges that cover [0, total) with no gap.
IsSplit(ranges, total) ==
    /\ Offsets(ranges) = 0..(total - 1)
    /\ \A a, b \in ranges : a # b => (a[1]..a[2]) \cap (b[1]..b[2]) = {}

\* A run whose request was flagged last-chunk and has answered with a URL.
FinalChunkServed(p) ==
    /\ pc[p] = "done"
    /\ req[p].content_range # <<>>
    /\ req[p].lastchunk
    /\ resp[p].kind = "json"

\* The bytes a request saved to the blob store.
SavedBy(rid) == {datasource[k].data : k \in {j \in DOMAIN datasource : datasource[j].rid = rid}}

\* C1: when the chunk files listed by the final-chunk request are exactly
\* the chunks of a split of the upload, the bytes that request saves are
\* the source bytes.
RoundTrip ==
    \A p \in Procs :
        ( /\ FinalChunkServed(p)
          /\ loc[p].listed \subseteq OwnNames(req[p].identifier)
          /\ IsSplit(ListedRanges(p), Len(SourceOf(req[p].identifier))) )
        => SavedBy(loc[p].rid) = {SourceOf(req[p].identifier)}

\* C2: a File Record of a partial upload exists only once every offset of
\* [0, total) has been copied into the reassembly buffer.
RecordOnlyWhenFullyKnown ==
    \A p \in Procs :
        (req[p].content_range # <<>> /\ loc[p].image # JSNull)
        => loc[p].covered = 0..(loc[p].total.num - 1)

\* C3: an upload identifier has at most one File Record.
OneRecordPerUpload ==
    \A i, j \in DOMAIN images :
        (images[i].upload # <<>> /\ images[i].upload = images[j].upload) => i = j

\* C4: the chunk a final-chunk request has read, and is about to delete,
\* was stored for its own identifier.
ReadsOwnChunksOnly ==
    \A p \in Procs : pc[p] = "unlink" => loc[p].cur \in OwnNames(req[p].identifier)

\* C5: a final-chunk request that found a range of [0, total) missing
\* answers with a URL, and the bytes it saved have length total, zero at
\* the offsets of no listed chunk and the source bytes at the others.
ZeroFilledGaps ==
    \A p \in Procs :
        LET source == SourceOf(req[p].identifier)
            expected == [k \in 1..Len(source) |->
                            IF (k - 1) \in Offsets(ListedRanges(p)) THEN source[k] ELSE 0]
        IN ( /\ pc[p] = "done"
             /\ req[p].content_range # <<>>
             /\ req[p].lastchunk
             /\ Extension(req[p].filename) \notin zconfig.uploader.disabled_extensions
             /\ loc[p].listed \subseteq OwnNames(req[p].identifier)
             /\ Offsets(ListedRanges(p)) # 0..(Len(source) - 1) )
           => /\ resp[p].kind = "json"
              /\ SavedBy(loc[p].rid) = {expected}

\* C6: at the rate-limit check of a whole upload, a cooldown (as read with
\* the user at line 24) that lies strictly in the future ends the request
\* as rate-limited with remaining = cooldown - now, nothing ingested and
\* nothing changed; a cooldown that has passed (cooldown <= now) lets the
\* request go on and the stored cooldown is set to null.
CooldownGate ==
    [][\A p \in Procs :
        (pc[p] = "ratelimit" /\ pc'[p] # "ratelimit") =>
            IF user[p].ratelimit # JSNull /\ user[p].ratelimit.num > now
            THEN /\ pc'[p] = "done"
                 /\ resp'[p] = [kind |-> "ratelimited",
                                 remaining |-> user[p].ratelimit.num - now]
                 /\ touched'[p] = {}
                 /\ shared' = shared
            ELSE IF user[p].ratelimit # JSNull
            THEN /\ users'[user[p].id].ratelimit = JSNull
                 /\ resp'[p].kind # "ratelimited"
                 /\ pc'[p] = "file" \/ resp'[p].kind = "error"
            ELSE users' = users /\ resp'[p].kind # "ratelimited"]_vars

\* C6 witness: a whole upload was turned away with time left to wait.
RejectedInCooldown ==
    \E p \in Procs :
        /\ pc[p] = "done"
        /\ req[p].content_range = <<>>
        /\ resp[p].kind = "ratelimited"
        /\ resp[p].remaining > 0
        /\ touched[p] = {}

\* C7: when a whole upload is answered, the cooldown of an administrator
\* is now + the admin duration if that is > 0, the cooldown of another
\* user is now + the user duration if that is > 0, and is left alone otherwise.
CooldownArmedByRole ==
    [][\A p \in Procs :
        (pc[p] = "arm" /\ pc'[p] = "done") =>
            users'[user[p].id].ratelimit =
                IF user[p].administrator /\ zconfig.ratelimit.admin > 0
                THEN Num(now + zconfig.ratelimit.admin * 1000)
                ELSE IF ~user[p].administrator /\ zconfig.ratelimit.user > 0
                THEN Num(now + zconfig.ratelimit.user * 1000)
                ELSE users[user[p].id].ratelimit]_vars

\* The request of run p was made by a user whose cooldown (as read with
\* the user at line 24) is still in the future.
InCooldown(p) ==
    /\ pc[p] # "idle"
    /\ user[p] # JSNull
    /\ user[p].ratelimit # JSNull
    /\ user[p].ratelimit.num > now

Ingested == {"tmp", "images", "datasource"}

\* C8 as stated: no request of a user in cooldown, chunked or whole,
\* stores a chunk, creates a File Record or writes to the blob store.
CooldownGatesEveryRequest ==
    \A p \in Procs : InCooldown(p) => touched[p] \cap Ingested = {}

\* C8 as amended: no whole-upload request of a user in cooldown stores a
\* chunk, creates a File Record or writes to the blob store.
CooldownGatesWholeUploads ==
    \A p \in Procs :
        (InCooldown(p) /\ req[p].content_range = <<>>) => touched[p] \cap Ingested = {}

\* C8 witness: a whole upload of a user still in cooldown has ended, turned
\* away, after an earlier request had created a File Record.
WholeUploadGated ==
    \E p \in Procs :
        /\ InCooldown(p)
        /\ req[p].content_range = <<>>
        /\ pc[p] = "done"
        /\ resp[p].kind = "ratelimited"
        /\ \E k \in DOMAIN images : images[k].userId = user[p].id

\* C9: a whole upload rejected for a disabled extension has created no
\* File Record and has written nothing to the blob store.
DisabledExtensionLeavesNothing ==
    \A p \in Procs :
        ( /\ pc[p] = "done"
          /\ req[p].content_range = <<>>
          /\ resp[p].kind = "error"
          /\ resp[p].error = "disabled extension recieved" )
        => touched[p] \cap {"images", "datasource"} = {}

HeaderErrors ==
    {"invalid date", "invalid image compression percent (invalid number)",
     "invalid image compression percent (% < 0 || % > 100)",
     "invalid max views (invalid number)", "invalid max views (max views < 0)"}

\* The headers the claim calls invalid, among those a client sends here.
BadHeaders(r) ==
    \/ r.expires_at = <<"z">>
    \/ r.compression \in {<<"a", "b", "c">>, <<"-", "1">>, <<"1", "0", "1">>}
    \/ r.max_views \in {<<"a", "b", "c">>, <<"-", "1">>}

\* C10: a request with a wrong method or without a known token is
\* forbidden, one with an invalid header is rejected with that header's
\* error, and neither has changed any shared resource; a request rejected
\* for 'no files' has created no File Record and written no bytes.
RejectedTouchNothing ==
    \A p \in Procs :
        pc[p] = "done" =>
            /\ (req[p].method # "POST" \/ req[p].authorization \notin Tokens)
                    => resp[p].kind = "forbid"
            /\ (req[p].method = "POST" /\ req[p].authorization \in Tokens /\ BadHeaders(req[p]))
                    => (resp[p].kind = "error" /\ resp[p].error \in HeaderErrors)
            /\ resp[p].kind = "forbid" => touched[p] = {}
            /\ (resp[p].kind = "error" /\ resp[p].error \in HeaderErrors) => touched[p] = {}
            /\ (resp[p].kind = "error" /\ resp[p].error = "no files")
                    => touched[p] \cap {"images", "datasource"} = {}

\* C10 witness: a chunk request was rejected for a header while another
\* request's File Record exists.
ChunkRequestRejected ==
    \E p \in Procs :
        /\ pc[p] = "done"
        /\ req[p].content_range # <<>>
        /\ resp[p].kind = "error"
        /\ resp[p].error \in HeaderErrors
        /\ images # <<>>

\* A run that has ended with the URLs of what it ingested.
Served(p) == pc[p] = "done" /\ resp[p].kind = "json" /\ loc[p].image # JSNull

\* The file name, mimetype and bytes the ingestion of run p started from:
\* those of the reassembled upload, or of the last file of the batch.
OriginalName(p) ==
    IF req[p].content_range # <<>> THEN req[p].filename
    ELSE req[p].files[Len(req[p].files)].originalname

OriginalMimetype(p) ==
    IF req[p].content_range # <<>> THEN req[p].mimetype
    ELSE req[p].files[Len(req[p].files)].mimetype

OriginalBytes(p) ==
    IF req[p].content_range # <<>> THEN loc[p].chunks
    ELSE req[p].files[Len(req[p].files)].buffer

\* The bytes saved under the stored file name of the last File Record of run p.
SavedAs(p) ==
    {datasource[k].data : k \in {j \in DOMAIN datasource :
        datasource[j].rid = loc[p].rid /\ datasource[j].file = loc[p].image.file}}

\* C11: in both paths, compression is used only when a percent was sent
\* and the mimetype begins with image/; when it is used the stored name
\* ends in jpg, the record's mimetype is image/jpeg and the saved bytes are
\* the recompressed ones; when it is not, extension, mimetype and bytes
\* are the original ones (requests without the uploadtext flag).
CompressionApplied ==
    \A p \in Procs :
        (Served(p) /\ ~req[p].uploadtext) =>
            LET used == CompressionUsed(req[p], OriginalMimetype(p))
                image == loc[p].image
            IN /\ used => ( /\ req[p].compression # <<>>
                            /\ StartsWith(OriginalMimetype(p), <<"image/">>) )
               /\ used => ( /\ Extension(image.file) = <<"jpg">>
                            /\ image.mimetype = <<"image/", "jpeg">>
                            /\ SavedAs(p) = {Sharp(OriginalBytes(p), HeaderNumber(req[p].compression))} )
               /\ ~used => ( /\ Extension(image.file) = Extension(OriginalName(p))
                             /\ image.mimetype = OriginalMimetype(p)
                             /\ SavedAs(p) = {OriginalBytes(p)} )

\* The File Records and the blob-store writes of a request, in the order
\* they were made.
RecordsOf(rid) == SelectSeq(images, LAMBDA im : im.rid = rid)

WritesOf(rid) == SelectSeq(datasource, LAMBDA d : d.rid = rid)

\* The alias of a File Record, or nothing.
AliasesOf(image) == {invisibles[k].invis : k \in {j \in DOMAIN invisibles :
                                                     invisibles[j].imageId = image.id}}

\* C12: a whole upload works through its files one after the other - at
\* any moment it has written the bytes of all the files it has recorded
\* but at most the one in hand, and has one URL per written file - and
\* when it ends in success with k files it has created k File Records and
\* made k writes, the i-th under the i-th record's stored name with the
\* i-th file's bytes, and answers k URLs, the i-th naming the i-th
\* record's alias if it has one, else its stored name.
BatchOneByOne ==
    \A p \in Procs :
        (pc[p] # "idle" /\ req[p].content_range = <<>>) =>
            LET records == RecordsOf(loc[p].rid)
                writes == WritesOf(loc[p].rid)
                k == Len(req[p].files)
            IN /\ Len(writes) <= Len(records) /\ Len(records) <= Len(writes) + 1
               /\ Len(loc[p].files) = Len(writes)
               /\ Len(records) <= k
               /\ \A i \in 1..Len(writes) :
                     /\ writes[i].file = records[i].file
                     /\ writes[i].data = req[p].files[i].buffer
                     /\ Extension(records[i].file) = Extension(req[p].files[i].originalname)
                     /\ loc[p].files[i].name \in
                            (IF AliasesOf(records[i]) # {} THEN AliasesOf(records[i])
                             ELSE {records[i].file})
               /\ (pc[p] = "done" /\ resp[p].kind = "json") =>
                     /\ Len(records) = k /\ Len(writes) = k
                     /\ resp[p].body.files = loc[p].files
                     /\ Len(resp[p].body.files) = k

\* C12 witness: a batch of two files was served, with aliases.
BatchOfTwoServed ==
    \E p \in Procs :
        /\ pc[p] = "done" /\ resp[p].kind = "json"
        /\ req[p].content_range = <<>>
        /\ Len(req[p].files) = 2
        /\ Len(RecordsOf(loc[p].rid)) = 2
        /\ \A i \in 1..2 : AliasesOf(RecordsOf(loc[p].rid)[i]) # {}

\* The request of run p is a chunk request for bytes s..e of its upload.
DeclaresRange(p, s, e) ==
    req[p].content_range = ContentRange(s, e, Len(SourceOf(req[p].identifier)))

\* C13: the step that stores the chunk of a request not flagged last-chunk
\* puts the request's bytes under the name of (identifier, start, end),
\* leaves every other chunk, the File Records, the aliases, the blob store
\* and the users as they are, and answers {success: true}; such a request
\* has changed nothing but the chunk store when it has ended, and a served
\* request flagged last-chunk answers a list of exactly one URL.
ChunkOutcomes ==
    [][\A p \in Procs :
        /\ (pc[p] = "writeFile" /\ pc'[p] # "writeFile" /\ ~req[p].lastchunk) =>
              \E se \in ByteRanges(Len(SourceOf(req[p].identifier))) :
                 LET name == TempFileName(req[p].identifier, Num(se[1]), Num(se[2]))
                 IN /\ DeclaresRange(p, se[1], se[2])
                    /\ [name |-> name, data |-> req[p].files[1].buffer] \in tmp'
                    /\ {f \in tmp' : f.name # name} = {f \in tmp : f.name # name}
                    /\ <<users, images, invisibles, datasource>>'
                           = <<users, images, invisibles, datasource>>
                    /\ pc'[p] = "done"
                    /\ resp'[p] = [kind |-> "json", body |-> [success |-> TRUE]]
        /\ (pc'[p] = "done" /\ req'[p].content_range # <<>> /\ ~req'[p].lastchunk) =>
              (resp'[p].kind = "json" /\ touched'[p] \subseteq {"tmp"})
        /\ (pc'[p] = "done" /\ req'[p].content_range # <<>> /\ req'[p].lastchunk
                /\ resp'[p].kind = "json") =>
              Len(resp'[p].body.files) = 1]_vars

\* C13 witness: a chunk not flagged last-chunk was stored next to another
\* chunk, and a request flagged last-chunk was served.
ChunkStoredAndServed ==
    \E p, q \in Procs :
        /\ pc[p] = "done" /\ req[p].content_range # <<>> /\ ~req[p].lastchunk
        /\ resp[p].kind = "json"
        /\ pc[q] = "done" /\ req[q].content_range # <<>> /\ req[q].lastchunk
        /\ resp[q].kind = "json"
        /\ tmp # {}

\* The format a selector stands for: the key it matches when its case is
\* ignored, RANDOM when it is absent or matches none.
SelectedFormat(selector) ==
    IF ToUpperCase(selector) \in ImageFormatKeys THEN ToUpperCase(selector)
    ELSE <<"R", "A", "N", "D", "O", "M">>

\* The stem of a stored file name: what precedes its first dot.
StemOf(file) == Split(file, ".")[1]

\* C14: an upload is ingested under the format its selector stands for;
\* with a selector that is absent or none of the four, the File Record is
\* tagged RANDOM and the stem of its name is a random string.
FormatResolved ==
    \A p \in Procs :
        pc[p] = "done" =>
            /\ Served(p)
            /\ loc[p].image.format = SelectedFormat(req[p].format)
            /\ SelectedFormat(req[p].format) = <<"R", "A", "N", "D", "O", "M">>
                  => StemOf(loc[p].image.file) \in RandomStems

\* C15: every URL a served upload returns has as host one of the user's
\* custom domains when the user has any, else the scheme and host of the
\* request, and as path the route followed by the alias of the File
\* Record if one was created, else by its stored file name.
UrlConstruction ==
    \A p \in Procs :
        Served(p) =>
            LET domains == users[user[p].id].domains
                image == loc[p].image
                url == resp[p].body.files[Len(resp[p].body.files)]
            IN /\ url.origin \in (IF Len(domains) > 0
                                    THEN {domains[d] : d \in 1..Len(domains)}
                                    ELSE {"scheme://host"})
               /\ url.route = "route"
               /\ url.name \in (IF AliasesOf(image) # {} THEN AliasesOf(image)
                                  ELSE {image.file})

\* C16: whatever a request has written to the blob store, it had created
\* the File Record for before, and the alias too when one was requested;
\* and the step at which datasource.save rejects ends the request without
\* a reply, writes nothing and leaves the File Records as they are.
RecordBeforeWrite ==
    [][\A p \in Procs :
        /\ pc'[p] # "idle" =>
              LET records == SelectSeq(images', LAMBDA im : im.rid = loc'[p].rid)
                  writes == SelectSeq(datasource', LAMBDA d : d.rid = loc'[p].rid)
              IN /\ Len(writes) <= Len(records)
                 /\ \A i \in 1..Len(writes) :
                       /\ writes[i].file = records[i].file
                       /\ req'[p].zws =>
                             \E k \in DOMAIN invisibles' : invisibles'[k].imageId = records[i].id
        /\ (pc[p] \in {"save", "fileSave"} /\ pc'[p] = "done" /\ datasource' = datasource) =>
              /\ resp'[p].kind = "thrown"
              /\ images' = images
              /\ invisibles' = invisibles
              /\ \E i \in DOMAIN images' : images'[i] = loc[p].image]_vars

\* C16 witness: a request has failed at the blob-store write and its File
\* Record, with its alias, is there without any bytes stored for it.
OrphanedRecord ==
    \E p \in Procs :
        /\ pc[p] = "done"
        /\ resp[p] = [kind |-> "thrown", error |-> "datasource.save"]
        /\ Len(RecordsOf(loc[p].rid)) = 1
        /\ AliasesOf(RecordsOf(loc[p].rid)[1]) # {}
        /\ WritesOf(loc[p].rid) = <<>>

\* C17: once every request has been processed, no chunk remains of an
\* identifier whose final-chunk request has created its File Record.
ChunksCleanedUp ==
    (\A p \in Procs : pc[p] \in {"idle", "done"}) =>
        \A k \in DOMAIN images :
            images[k].upload # <<>> =>
                \A f \in tmp : f.name \notin OwnNames(images[k].upload)

\* C18: with format NAME, a file whose name contains a dot and that is
\* ingested without compression is stored under its original name.
NameKept ==
    \A p \in Procs :
        ( /\ Served(p)
          /\ SelectedFormat(req[p].format) = <<"N", "A", "M", "E">>
          /\ \E k \in DOMAIN OriginalName(p) : OriginalName(p)[k] = "."
          /\ ~CompressionUsed(req[p], OriginalMimetype(p)) )
        => loc[p].image.file = OriginalName(p)

\* C19: nothing is recorded or written for content larger than the limit
\* of the user's role - not a file of a batch, not an upload reassembled
\* from chunks - and a batch rejected for the size of file i has no File
\* Record for file i or a later one.
SizeLimitKept ==
    \A p \in Procs :
        (pc[p] # "idle" /\ user[p] # JSNull) =>
            LET records == RecordsOf(loc[p].rid)
                writes == WritesOf(loc[p].rid)
                limit == SizeLimit(user[p])
            IN /\ \A i \in 1..Len(writes) : Len(writes[i].data) <= limit
               /\ \A i \in 1..Len(records) :
                     IF req[p].content_range # <<>> THEN loc[p].total.num <= limit
                     ELSE req[p].files[i].size <= limit
               /\ (pc[p] = "done" /\ resp[p].kind = "error" /\ resp[p].error = "size too big")
                     => Len(records) <= resp[p].i

\* C20: a step changes the cooldown of a user only when it is the entry
\* check of a whole upload of that user clearing a cooldown that has
\* passed, or the end of a whole upload of that user that has ingested
\* every file of its batch and is served; the step that ends a request
\* with an error arms nothing, and a batch rejected at file i keeps the
\* File Records and the bytes of the i files before it.
CooldownWrites ==
    [][ /\ \A u \in DOMAIN users :
            users'[u].ratelimit # users[u].ratelimit =>
              \E p \in Procs :
                /\ user[p] # JSNull /\ user[p].id = u
                /\ req[p].content_range = <<>>
                /\ \/ /\ pc[p] = "ratelimit"
                      /\ user[p].ratelimit # JSNull /\ user[p].ratelimit.num <= now
                      /\ users'[u].ratelimit = JSNull
                   \/ /\ pc[p] = "arm" /\ pc'[p] = "done"
                      /\ resp'[p].kind = "json"
                      /\ Len(RecordsOf(loc[p].rid)) = Len(req[p].files)
                      /\ Len(WritesOf(loc[p].rid)) = Len(req[p].files)
                      /\ users'[u].ratelimit # JSNull
        /\ \A p \in Procs :
            (pc[p] # "done" /\ pc'[p] = "done" /\ resp'[p].kind = "error") =>
                /\ \A u \in DOMAIN users :
                      users'[u].ratelimit = users[u].ratelimit \/ users'[u].ratelimit = JSNull
                /\ resp'[p].error \in {"size too big", "disabled extension recieved"} =>
                      /\ images' = images /\ datasource' = datasource
                      /\ Len(RecordsOf(loc[p].rid)) = resp'[p].i
                      /\ Len(WritesOf(loc[p].rid)) = resp'[p].i ]_vars

\* C20 witness: with a cooldown configured, a batch of the administrator
\* was rejected at its second file; the first file's record and bytes are
\* there and the cooldown is not armed.
RejectedBatchNotArmed ==
    \E p \in Procs :
        /\ pc[p] = "done" /\ resp[p].kind = "error"
        /\ req[p].content_range = <<>>
        /\ resp[p].error \in {"size too big", "disabled extension recieved"}
        /\ resp[p].i = 1
        /\ Len(RecordsOf(loc[p].rid)) = 1 /\ Len(WritesOf(loc[p].rid)) = 1
        /\ zconfig.ratelimit.admin > 0 /\ user[p].administrator
        /\ users[user[p].id].ratelimit = JSNull
====
